---- MODULE Spec2Model ----
(***************************************************************************)
(* A model of the SOP tool server (weather_mcp_server.py): the resource    *)
(* store loaded at construction, the four tool handlers, handle_request    *)
(* and the line-by-line dispatch loop of run().                            *)
(*                                                                         *)
(* Strings that the code inspects character by character are sequences of  *)
(* one-character strings; Python's None is the string "None"; float scores *)
(* are integers, and the fused score 0.7*dense + 0.3*bm25 is kept scaled   *)
(* by ten as 7*dense + 3*bm25, which orders results the same way.          *)
(***************************************************************************)
EXTENDS Integers, Sequences, FiniteSets, TLC

VARIABLES
    pc,           \* where the process is: start, read, dispatch, done, fatal
    environ,      \* the process environment (SERPER_API_KEY present or not)
    doc_meta,     \* global doc_meta: the document table
    faiss_index,  \* global faiss_index: dense scores per embedding
    bm25,         \* global bm25: lexical scores per token list
    kg,           \* global kg: the context graph
    model,        \* global model: the query encoder
    loaded,       \* the globals assigned so far by _load_resources, in order
    line,         \* the line run() has just read
    nread,        \* how many lines run() has read
    readLog,      \* history: every line read, in order
    out,          \* stdout, a sequence of lines
    err,          \* stderr, a sequence of lines
    tools,        \* self.tools: the tool descriptors
    ret           \* the value returned by the last direct tool call, or the
                  \* last exchange of the pass-through server with its backend

vars == <<pc, environ, doc_meta, faiss_index, bm25, kg, model, loaded,
          line, nread, readLog, out, err, tools, ret>>

resources == <<doc_meta, faiss_index, bm25, kg, model>>

----------------------------------------------------------------------------
(* Bounds of the model *)

NDocs == 3
NSections == 3
MaxK == 2
MaxLines == 2
MaxTextLen == 3
MaxCitations == 2

(* Constants of the program *)

DefaultK == 5
ExcerptLen == 300
NeighborMax == 3
DenseWeight == 7
Bm25Weight == 3
HandlerErrorCode == -32000
ParseErrorCode == -32700

None == "None"

----------------------------------------------------------------------------
(* Sequence helpers: Python slicing, reversal, stable sorting *)

Min(a, b) == IF a <= b THEN a ELSE b

Take(s, n) == SubSeq(s, 1, Min(n, Len(s)))

Reverse(s) == [i \in 1..Len(s) |-> s[Len(s) + 1 - i]]

Range(s) == {s[i] : i \in 1..Len(s)}

Perms(n) == Permutations(1..n)

\* numpy.argsort(scores): an index permutation putting the scores in
\* non-decreasing order; the order among equal scores is not specified.
ArgSort(scores) ==
    {p \in Perms(Len(scores)) :
        \A i, j \in 1..Len(scores) : i < j => scores[p[i]] <= scores[p[j]]}

\* The fused score of a merged entry, 0.7*dense + 0.3*bm25, times ten.
Combined(r) == r.dense_score * DenseWeight + r.bm25_score * Bm25Weight

\* sorted(xs, key=Combined, reverse=True): descending and stable.
RECURSIVE InsertDesc(_, _)
InsertDesc(sorted, x) ==
    IF sorted = <<>> THEN <<x>>
    ELSE IF Combined(Head(sorted)) >= Combined(x)
         THEN <<Head(sorted)>> \o InsertDesc(Tail(sorted), x)
         ELSE <<x>> \o sorted

RECURSIVE SortedDesc(_)
SortedDesc(xs) ==
    IF xs = <<>> THEN <<>>
    ELSE InsertDesc(SortedDesc(SubSeq(xs, 1, Len(xs) - 1)), xs[Len(xs)])

----------------------------------------------------------------------------
(* The persisted artifacts *)

SidName(i) == "SOP-" \o ToString(i)

SectionIds == {SidName(i) : i \in 1..NSections}

UnknownSid == "SOP-0"

Queries == {"", "q"}

\* query.split(): the whitespace-separated tokens of the query.
Split(query) == IF query = "" THEN <<>> ELSE <<query>>

TokenLists == {Split(q) : q \in Queries}

ShortText == <<"a", "b">>

LongText == [i \in 1..(ExcerptLen + 1) |-> "x"]

\* A dictionary is a record over its possible keys; each entry says whether
\* the key is present and, if so, its value.
Present(v) == [has |-> TRUE, v |-> v]

AbsentText == [has |-> FALSE, v |-> <<>>]

AbsentStr == [has |-> FALSE, v |-> ""]

\* dict.get(key, default)
Get(d, key, default) == IF d[key].has THEN d[key].v ELSE default

\* bool(d) of a dictionary: whether it has any key.
Truthy(d) == \E key \in DOMAIN d : d[key].has

EmptyNode ==
    [text |-> AbsentText, title |-> AbsentStr, sop |-> AbsentStr,
     section |-> AbsentStr]

TextOnlyNode == [EmptyNode EXCEPT !.text = Present(ShortText)]

FullNode ==
    [text |-> Present(LongText), title |-> Present("T"),
     sop |-> Present("SOP"), section |-> Present("PROCEDURE")]

\* The attribute dictionaries a graph node may carry.
NodeAttrs == {EmptyNode, TextOnlyNode, FullNode}

\* A directed graph: attribute dictionaries by node, successor lists by node.
\* Every node has an edge to every node of the graph.
Graphs(nodeSets, attrs) ==
    UNION { { [nodes |-> nd,
               succ |-> [n \in N |-> CHOOSE p \in [1..Cardinality(N) -> N] :
                                        \A i, j \in 1..Cardinality(N) :
                                           i # j => p[i] # p[j]]] :
                nd \in [N -> attrs] }
            : N \in nodeSets }

ZeroScores == [i \in 1..NDocs |-> 0]

\* Position i of doc_meta, of the lexical corpus and of the vector index
\* describe the same section; bm25 scores a query without tokens as zero.
Stores(metas, bmVecs, denseVecs, graphs) ==
    { [doc_meta |-> [i \in 1..NDocs |-> [section_id |-> dm[i]]],
       bm25 |-> [t \in TokenLists |-> IF t = <<>> THEN ZeroScores ELSE bv],
       faiss_index |-> [e \in Queries |-> dv],
       kg |-> g,
       model |-> [q \in Queries |-> q]] :
         dm \in metas, bv \in bmVecs, dv \in denseVecs, g \in graphs }

Bm25Vals == {0, 5}

DenseVals == {-1, 2}

\* The document tables up to a renaming of the section ids: the first
\* position holds the first id, a later position an id already used or the
\* next unused one. Tables with repeated section ids are among them.
DocTables ==
    { [i \in 1..NDocs |-> SidName(dm[i])] :
        dm \in { f \in [1..NDocs -> 1..NSections] :
                    /\ f[1] = 1
                    /\ \A i \in 2..NDocs : \E j \in 1..(i - 1) : f[i] <= f[j] + 1 } }

AllStores ==
    Stores(DocTables,
           [1..NDocs -> Bm25Vals],
           [1..NDocs -> DenseVals],
           Graphs({SectionIds}, {TextOnlyNode}))

\* The stores the dispatch loop is run over: one document table that
\* repeats a section id, graphs with and without a node for each section.
ServeStores ==
    Stores({[i \in 1..NDocs |-> SidName(((i - 1) % NSections) + 1)]},
           {[i \in 1..NDocs |-> IF i = 1 THEN 5 ELSE 0]},
           {[i \in 1..NDocs |-> IF i = NDocs THEN 2 ELSE 0]},
           Graphs({{SidName(1)}}, NodeAttrs)
               \cup Graphs({SectionIds}, {FullNode}))

----------------------------------------------------------------------------
(* sop_search *)

Raise(message) == [raised |-> TRUE, message |-> message]

\* json.dumps(payload, indent=2) and a plain formatted string: the two kinds
\* of text a tool puts in its content.
JsonDumps(payload) == [fmt |-> "json", indent |-> 2, value |-> payload]

PlainText(string) == [fmt |-> "plain", value |-> string]

Content(text) ==
    [raised |-> FALSE, content |-> <<[type |-> "text", text |-> text]>>]

\* faiss_index.search(emb, k): k rows, the nearest first, the rows beyond
\* the size of the index filled with the index -1.
FaissPad == [score |-> 0 - 1000000, idx |-> -1]

FaissSearch(emb, k) ==
    LET vec == faiss_index[emb]
    IN  { [i \in 1..k |-> IF i <= Len(vec)
                            THEN [score |-> vec[Reverse(p)[i]], idx |-> Reverse(p)[i]]
                            ELSE FaissPad] : p \in ArgSort(vec) }

\* Mutant of Bm25Kept: the positions scored zero are kept as well.
Bm25KeptAll(query, k) ==
    {Take(Reverse(perm), k) : perm \in ArgSort(bm25[Split(query)])}

\* The positions of bm25_top_idx = np.argsort(bm25_scores)[::-1][:k] that
\* are scored above zero, the best first, for each order argsort may give
\* equal scores.
Bm25Kept(query, k) ==
    LET bm25_scores == bm25[Split(query)]
    IN  { SelectSeq(Take(Reverse(perm), k), LAMBDA i : bm25_scores[i] > 0) :
            perm \in ArgSort(bm25_scores) }

\* bm25_candidates: section id and score of the positions kept.
Bm25Candidates(query, kept) ==
    [j \in 1..Len(kept) |->
        [sid |-> doc_meta[kept[j]].section_id,
         score |-> bm25[Split(query)][kept[j]]]]

\* dense_cands: the rows of the vector search that name a position.
DenseCands(hits) ==
    LET kept == SelectSeq(hits, LAMBDA h : ~(h.idx < 0))
    IN  [j \in 1..Len(kept) |->
            [sid |-> doc_meta[kept[j].idx].section_id, score |-> kept[j].score]]

\* merged: a dict keyed by sid, here the sequence of its values in
\* insertion order.
InMerged(merged, sid) == \E i \in 1..Len(merged) : merged[i].sid = sid

\* Mutant of PutMerged: merged is a list, every candidate adds an entry.
PutMergedAppend(merged, entry) == Append(merged, entry)

\* merged[sid] = entry
PutMerged(merged, entry) ==
    IF InMerged(merged, entry.sid)
    THEN [i \in 1..Len(merged) |->
            IF merged[i].sid = entry.sid THEN entry ELSE merged[i]]
    ELSE Append(merged, entry)

RECURSIVE MergeDense(_, _)
MergeDense(merged, cands) ==
    IF cands = <<>> THEN merged
    ELSE MergeDense(
            PutMerged(merged, [sid |-> Head(cands).sid,
                               dense_score |-> Head(cands).score,
                               bm25_score |-> 0]),
            Tail(cands))

\* Mutant of MergeBm25Entry: the lexical candidate overwrites the entry the
\* dense pass made for the same section.
MergeBm25EntryOverwrite(merged, cand) ==
    PutMerged(merged, [sid |-> cand.sid, dense_score |-> 0,
                       bm25_score |-> cand.score])

\* if sid in merged: merged[sid]["bm25_score"] = score; else a new entry.
MergeBm25Entry(merged, cand) ==
    IF InMerged(merged, cand.sid)
    THEN [i \in 1..Len(merged) |->
            IF merged[i].sid = cand.sid
            THEN [merged[i] EXCEPT !.bm25_score = cand.score]
            ELSE merged[i]]
    ELSE Append(merged, [sid |-> cand.sid, dense_score |-> 0,
                         bm25_score |-> cand.score])

RECURSIVE MergeBm25(_, _)
MergeBm25(merged, cands) ==
    IF cands = <<>> THEN merged
    ELSE MergeBm25(MergeBm25Entry(merged, Head(cands)), Tail(cands))

Merged(dense_cands, bm25_candidates) ==
    MergeBm25(MergeDense(<<>>, dense_cands), bm25_candidates)

\* Mutant of Ranked: the merged entries are left in insertion order.
RankedUnsorted(merged) == merged

\* results: the merged entries ranked by the fused score.
Ranked(merged) == SortedDesc(merged)

\* next((m for m in doc_meta if m["section_id"] == sid), None)
HasMeta(sid) == \E i \in 1..Len(doc_meta) : doc_meta[i].section_id = sid

\* kg.nodes.get(sid, {}).get("text", "")[:300]
Excerpt(sid) ==
    IF ~HasMeta(sid) THEN <<>>
    ELSE IF sid \in DOMAIN kg.nodes
         THEN Take(Get(kg.nodes[sid], "text", <<>>), ExcerptLen)
         ELSE <<>>

Enriched(results, k) ==
    [j \in 1..Len(Take(results, k)) |->
        [section_id |-> results[j].sid,
         excerpt |-> Excerpt(results[j].sid),
         scores |-> [dense |-> results[j].dense_score,
                     bm25 |-> results[j].bm25_score]]]

\* kg.successors(n) raises NetworkXError for a node the graph does not have.
MissingNodes(items) ==
    {j \in 1..Len(items) : items[j].section_id \notin DOMAIN kg.succ}

WithNeighbors(items) ==
    [j \in 1..Len(items) |->
        [section_id |-> items[j].section_id,
         excerpt |-> items[j].excerpt,
         scores |-> items[j].scores,
         neighbors |-> Take(kg.succ[items[j].section_id], NeighborMax)]]

NotInDigraph(sid) == "The node " \o sid \o " is not in the digraph."

sop_search(query, k, kept, hits) ==
    IF query = None
    THEN Raise("'NoneType' object has no attribute 'split'")
    ELSE LET results == Ranked(Merged(DenseCands(hits),
                                      Bm25Candidates(query, kept)))
             items == Enriched(results, k)
             missing == MissingNodes(items)
         IN  IF missing # {}
             THEN Raise(NotInDigraph(
                     items[CHOOSE j \in missing :
                              \A i \in missing : j <= i].section_id))
             ELSE Content(JsonDumps([query |-> query,
                                     results |-> WithNeighbors(items)]))

----------------------------------------------------------------------------
(* sop_read *)

NotFoundText(section_id) == "Error: section_id '" \o section_id \o "' not found"

ReadPayload(section_id, node) ==
    [section_id |-> section_id,
     text |-> Get(node, "text", <<>>),
     title |-> Get(node, "title", None),
     sop |-> Get(node, "sop", None),
     section |-> Get(node, "section", None)]

\* Mutant of sop_read: the node is looked up with kg.nodes[section_id],
\* which raises KeyError for an id that is no node.
sop_read_strict(section_id) ==
    IF section_id \notin DOMAIN kg.nodes
    THEN Raise("'" \o section_id \o "'")
    ELSE IF ~Truthy(kg.nodes[section_id])
         THEN Content(PlainText(NotFoundText(section_id)))
         ELSE Content(JsonDumps(ReadPayload(section_id, kg.nodes[section_id])))

\* node = kg.nodes.get(section_id); if not node: the not-found text.
sop_read(section_id) ==
    IF section_id \notin DOMAIN kg.nodes \/ ~Truthy(kg.nodes[section_id])
    THEN Content(PlainText(NotFoundText(section_id)))
    ELSE Content(JsonDumps(ReadPayload(section_id, kg.nodes[section_id])))

----------------------------------------------------------------------------
(* web_search *)

\* What the external search API can answer: a 200 with its organic results,
\* another status, or an exception (timeout, transport error).
WebReplies ==
    { [status |-> "200", organic |-> <<>>],
      [status |-> "200", organic |-> [i \in 1..(MaxK + 1) |-> "hit"]],
      [status |-> "500", organic |-> <<>>],
      [status |-> "exception", organic |-> <<>>] }

NoReply == [status |-> "none", organic |-> <<>>]

HasSerperKey == environ.SERPER_API_KEY.has /\ environ.SERPER_API_KEY.v # ""

\* Mutant of web_search: the call of the API is not wrapped in try/except,
\* so a timeout or transport error leaves the handler as an exception.
web_search_unguarded(query, k, reply) ==
    IF HasSerperKey
    THEN IF reply.status = "exception"
         THEN Raise("Search error")
         ELSE IF reply.status = "200"
              THEN Content(JsonDumps([query |-> query,
                                      results |-> Take(reply.organic, k)]))
              ELSE Content(JsonDumps([query |-> query, results |-> <<>>,
                                      warning |-> "Serper returned non-200"]))
    ELSE Content(JsonDumps([query |-> query, results |-> <<>>,
                            warning |-> "No SERPER_API_KEY configured"]))

web_search(query, k, reply) ==
    IF environ.SERPER_API_KEY.has /\ environ.SERPER_API_KEY.v # ""
    THEN IF reply.status = "exception"
         THEN Content(JsonDumps([query |-> query, results |-> <<>>,
                                 warning |-> "Search error"]))
         ELSE IF reply.status = "200"
              THEN Content(JsonDumps([query |-> query,
                                      results |-> Take(reply.organic, k)]))
              ELSE Content(JsonDumps([query |-> query, results |-> <<>>,
                                      warning |-> "Serper returned non-200"]))
    ELSE Content(JsonDumps([query |-> query, results |-> <<>>,
                            warning |-> "No SERPER_API_KEY configured"]))

----------------------------------------------------------------------------
(* cite_validate *)

IsSpace(c) == c \in {" ", "\n"}

IsStop(c) == c \in {".", "!", "?"}

LowerChar(c) ==
    CASE c = "A" -> "a"
      [] c = "B" -> "b"
      [] c = "H" -> "h"
      [] c = "O" -> "o"
      [] c = "P" -> "p"
      [] c = "S" -> "s"
      [] c = "T" -> "t"
      [] OTHER -> c

Lower(t) == [i \in 1..Len(t) |-> LowerChar(t[i])]

\* str.strip()
RECURSIVE Strip(_)
Strip(t) ==
    IF t = <<>> THEN t
    ELSE IF IsSpace(Head(t)) THEN Strip(Tail(t))
    ELSE IF IsSpace(t[Len(t)]) THEN Strip(SubSeq(t, 1, Len(t) - 1))
    ELSE t

\* re.split(r'(?<=[.!?])\s+', t): cut at every run of whitespace that
\* follows a full stop, exclamation mark or question mark.
RECURSIVE SplitFrom(_, _, _, _)
SplitFrom(t, i, cur, acc) ==
    IF i > Len(t) THEN Append(acc, cur)
    ELSE IF IsSpace(t[i]) /\ i > 1 /\ IsStop(t[i - 1])
         THEN LET rest == {j \in i..Len(t) : ~IsSpace(t[j])}
                  next == IF rest = {} THEN Len(t) + 1
                          ELSE CHOOSE j \in rest : \A m \in rest : j <= m
              IN  SplitFrom(t, next, <<>>, Append(acc, cur))
         ELSE SplitFrom(t, i + 1, Append(cur, t[i]), acc)

Sentences(text) == SplitFrom(Strip(text), 1, <<>>, <<>>)

\* needle in hay
Contains(hay, needle) ==
    \E i \in 0..(Len(hay) - Len(needle)) :
        SubSeq(hay, i + 1, i + Len(needle)) = needle

StartsWithHttp(a) == Len(a) >= 4 /\ SubSeq(a, 1, 4) = <<"h", "t", "t", "p">>

\* Mutant of Covered: an empty anchor is skipped.
CoveredSkippingEmpty(s, anchors) ==
    \E a \in anchors :
        /\ a # <<>>
        /\ \/ Contains(Lower(s), Lower(a))
           \/ StartsWithHttp(a) /\ Contains(s, a)

\* Mutant of Covered: the anchor is looked for as written, without
\* lowering either side.
CoveredCaseSensitive(s, anchors) == \E a \in anchors : Contains(s, a)

\* a.lower() in s.lower() or a.startswith("http") and a in s, for some a
Covered(s, anchors) ==
    \E a \in anchors :
        \/ Contains(Lower(s), Lower(a))
        \/ StartsWithHttp(a) /\ Contains(s, a)

Max(a, b) == IF a >= b THEN a ELSE b

\* covered / max(1, total) * 100, kept as the exact fraction num/den.
CoveragePct(covered, total) == [num |-> covered * 100, den |-> Max(1, total)]

cite_validate(text, citations) ==
    IF ~text.has
    THEN Raise("'NoneType' object has no attribute 'strip'")
    ELSE LET sentences == Sentences(text.v)
             anchors == Range(citations)
             coverage == [j \in 1..Len(sentences) |->
                            [sentence |-> sentences[j],
                             covered |-> Covered(sentences[j], anchors)]]
             n == Cardinality({j \in 1..Len(coverage) : coverage[j].covered})
         IN  Content(JsonDumps([coverage_pct |-> CoveragePct(n, Len(coverage)),
                                details |-> coverage]))

----------------------------------------------------------------------------
(* Input lines and requests *)

NoK == [has |-> FALSE, v |-> 0]

NoCitations == [has |-> FALSE, v |-> <<>>]

\* An arguments object; a key the caller left out reads as None, or as the
\* default the handler gives it.
NoArgs ==
    [query |-> None, k |-> NoK, section_id |-> None, text |-> AbsentText,
     citations |-> NoCitations]

\* params: an object with name and arguments, or a value that is no object.
Call(name, arguments) == [isobj |-> TRUE, name |-> name, arguments |-> arguments]

NoParams == Call(None, NoArgs)

NullParams == [isobj |-> FALSE, name |-> None, arguments |-> NoArgs]

Req(id, method, params) ==
    [kind |-> "object", id |-> id, method |-> method, params |-> params]

Other(kind) == [kind |-> kind, id |-> "null", method |-> None, params |-> NoParams]

EofLine == Other("eof")

BlankLine == Other("blank")

MalformedLine == Other("malformed")

NonObjectLine == Other("json")

\* Request ids; a request without one has the id "null".
RequestIds == {"1", "2"}

SearchCalls ==
    {Call("sop.search", [NoArgs EXCEPT !.query = "q", !.k = k]) :
        k \in {Present(1), NoK}}
    \cup {Call("sop.search", NoArgs)}

ReadCalls ==
    {Call("sop.read", [NoArgs EXCEPT !.section_id = sid]) :
        sid \in SectionIds \cup {UnknownSid}}

WebCalls == {Call("web.search", [NoArgs EXCEPT !.query = "q", !.k = Present(MaxK)])}

CitedText == <<"S", "e", "e", " ", "A", ".", " ", "b", "?">>

CiteCalls ==
    {Call("cite.validate", [NoArgs EXCEPT !.text = t, !.citations = c]) :
        t \in {AbsentText, Present(CitedText)},
        c \in {Present(<< <<"a">> >>)}}

ToolCalls ==
    SearchCalls \cup ReadCalls \cup WebCalls \cup CiteCalls
        \cup {Call("sop.delete", NoArgs), NullParams}

Requests ==
    {Req(id, m, NoParams) :
        id \in RequestIds, m \in {"initialize", "tools/list", "resources/list"}}
    \cup {Req("2", "tools/call", p) : p \in ToolCalls}
    \cup {Req("null", "tools/list", NoParams)}

Lines == {EofLine, BlankLine, MalformedLine, NonObjectLine} \cup Requests

----------------------------------------------------------------------------
(* handle_request *)

ToolNames == <<"sop.search", "sop.read", "web.search", "cite.validate">>

\* Mutant of Tools: the list lacks its last descriptor.
ToolsShort == [i \in 1..(Len(ToolNames) - 1) |-> [name |-> ToolNames[i]]]

\* self.tools: the descriptors, of which the model keeps the names.
Tools == [i \in 1..Len(ToolNames) |-> [name |-> ToolNames[i]]]

K(arguments) == IF arguments.k.has THEN arguments.k.v ELSE DefaultK

Citations(arguments) ==
    IF arguments.citations.has THEN arguments.citations.v ELSE <<>>

\* What the libraries and the network hand back during one request: the
\* best positions by lexical score, the rows of the vector search, the reply
\* of the web search API.
NoLib == [kept |-> <<>>, hits |-> <<>>, reply |-> NoReply]

LibFor(request) ==
    LET p == request.params
        a == p.arguments
    IN  IF request.method = "tools/call" /\ p.isobj /\ p.name = "sop.search"
           /\ a.query # None
        THEN { [kept |-> kept, hits |-> hits, reply |-> NoReply] :
                 kept \in Bm25Kept(a.query, K(a)),
                 hits \in FaissSearch(model[a.query], K(a)) }
        ELSE IF request.method = "tools/call" /\ p.isobj /\ p.name = "web.search"
                /\ environ.SERPER_API_KEY.has /\ environ.SERPER_API_KEY.v # ""
        THEN { [NoLib EXCEPT !.reply = r] : r \in WebReplies }
        ELSE {NoLib}

\* Mutant of CallTool: an unknown tool name falls through to sop.read.
CallToolFallthrough(params, lib) ==
    IF ~params.isobj
    THEN Raise("'NoneType' object has no attribute 'get'")
    ELSE LET arguments == params.arguments
         IN  CASE params.name = "sop.search" ->
                    sop_search(arguments.query, K(arguments), lib.kept, lib.hits)
               [] params.name = "web.search" ->
                    web_search(arguments.query, K(arguments), lib.reply)
               [] params.name = "cite.validate" ->
                    cite_validate(arguments.text, Citations(arguments))
               [] OTHER -> sop_read(arguments.section_id)

\* The tools/call branch: the handler's return value or the exception.
CallTool(params, lib) ==
    IF ~params.isobj
    THEN Raise("'NoneType' object has no attribute 'get'")
    ELSE LET arguments == params.arguments
         IN  CASE params.name = "sop.search" ->
                    sop_search(arguments.query, K(arguments), lib.kept, lib.hits)
               [] params.name = "sop.read" -> sop_read(arguments.section_id)
               [] params.name = "web.search" ->
                    web_search(arguments.query, K(arguments), lib.reply)
               [] params.name = "cite.validate" ->
                    cite_validate(arguments.text, Citations(arguments))
               [] OTHER -> Raise("Unknown tool: " \o params.name)

InitializedNotification ==
    [jsonrpc |-> "2.0", method |-> "notifications/initialized", params |-> "{}"]

Success(request_id, result) ==
    [jsonrpc |-> "2.0", id |-> request_id, result |-> result]

\* Mutant of Failure: the error response does not carry the request's id.
FailureWithoutId(request_id, code, message) ==
    [jsonrpc |-> "2.0", id |-> "null",
     error |-> [code |-> code, message |-> message]]

Failure(request_id, code, message) ==
    [jsonrpc |-> "2.0", id |-> request_id,
     error |-> [code |-> code, message |-> message]]

\* handle_request(request): the lines it prints itself and the response it
\* returns.
handle_request(request, lib) ==
    LET method == request.method
        request_id == request.id
    IN  CASE method = "tools/list" ->
               [printed |-> <<>>,
                response |-> Success(request_id, [tools |-> tools])]
          [] method = "tools/call" ->
               LET r == CallTool(request.params, lib)
               IN  [printed |-> <<>>,
                    response |->
                       IF r.raised
                       THEN Failure(request_id, HandlerErrorCode, r.message)
                       ELSE Success(request_id, [content |-> r.content])]
          [] method = "initialize" ->
               [printed |-> <<InitializedNotification>>,
                response |->
                   Success(request_id,
                           [protocolVersion |-> "2025-03-26",
                            serverInfo |-> [name |-> "SOP MCP Server",
                                            version |-> "1.0.0"]])]
          [] OTHER ->
               [printed |-> <<>>,
                response |-> Failure(request_id, HandlerErrorCode,
                                     "Unknown method: " \o method)]

----------------------------------------------------------------------------
(* Construction: SOPMCPServer.__init__ and _load_resources *)

LoadOrder == <<"doc_meta", "faiss_index", "bm25", "kg", "model">>

Artifacts == Range(LoadOrder)

\* Mutant of load_resources: a failed load is swallowed and the server is
\* constructed with the globals assigned so far.
load_resources_lenient(faiss_exists, unloadable) ==
    LET bad == {i \in 1..Len(LoadOrder) : LoadOrder[i] \in unloadable}
    IN  [raised |-> FALSE,
         loaded |-> IF bad = {} THEN LoadOrder
                    ELSE SubSeq(LoadOrder, 1,
                                (CHOOSE i \in bad : \A j \in bad : i <= j) - 1),
         message |-> ""]

\* Mutant of load_resources: the lexical index is loaded before the vector
\* index.
load_resources_lexical_first(faiss_exists, unloadable) ==
    LET order == <<"doc_meta", "bm25", "faiss_index", "kg", "model">>
        bad == {i \in 1..Len(order) : order[i] \in unloadable}
    IN  IF ~faiss_exists
        THEN [raised |-> TRUE, loaded |-> <<>>,
              message |-> "Indices not built. Run indexer.py first."]
        ELSE IF bad = {}
             THEN [raised |-> FALSE, loaded |-> order, message |-> ""]
             ELSE LET first == CHOOSE i \in bad : \A j \in bad : i <= j
                  IN  [raised |-> TRUE,
                       loaded |-> SubSeq(order, 1, first - 1),
                       message |-> "Failed to load resources: " \o order[first]]

\* _load_resources with the vector-index file present or not and the set
\* of artifacts that cannot be loaded: the globals it assigns before it
\* returns or raises.
load_resources(faiss_exists, unloadable) ==
    IF ~faiss_exists
    THEN [raised |-> TRUE, loaded |-> <<>>,
          message |-> "Indices not built. Run indexer.py first."]
    ELSE LET bad == {i \in 1..Len(LoadOrder) : LoadOrder[i] \in unloadable}
         IN  IF bad = {}
             THEN [raised |-> FALSE, loaded |-> LoadOrder, message |-> ""]
             ELSE LET first == CHOOSE i \in bad : \A j \in bad : i <= j
                  IN  [raised |-> TRUE,
                       loaded |-> SubSeq(LoadOrder, 1, first - 1),
                       message |-> "Failed to load resources: "
                                      \o LoadOrder[first]]

AllLoaded == Range(loaded) = Artifacts

\* main(): server = SOPMCPServer(). A RuntimeError from the constructor
\* leaves main() before server.run() is called.
main_construct(stores) ==
    /\ pc = "start"
    /\ \E faiss_exists \in BOOLEAN, unloadable \in SUBSET Artifacts, store \in stores :
          LET r == load_resources(faiss_exists, unloadable)
              got(name) == name \in Range(r.loaded)
          IN  /\ tools' = Tools
              /\ loaded' = r.loaded
              /\ doc_meta' = IF got("doc_meta") THEN store.doc_meta ELSE doc_meta
              /\ faiss_index' = IF got("faiss_index") THEN store.faiss_index
                                ELSE faiss_index
              /\ bm25' = IF got("bm25") THEN store.bm25 ELSE bm25
              /\ kg' = IF got("kg") THEN store.kg ELSE kg
              /\ model' = IF got("model") THEN store.model ELSE model
              /\ pc' = IF r.raised THEN "fatal" ELSE "run"
              /\ err' = IF r.raised THEN Append(err, "RuntimeError: " \o r.message)
                        ELSE err
    /\ UNCHANGED <<environ, line, nread, readLog, out, ret>>

----------------------------------------------------------------------------
(* run(): the dispatch loop *)

Emit(stream, lines) == stream \o lines

\* The banner run() writes to stderr before it enters the loop.
run_start ==
    /\ pc = "run"
    /\ err' = Emit(err, <<"SOP MCP Server running on stdio">>)
    /\ pc' = "read"
    /\ UNCHANGED <<environ, resources, loaded, line, nread, readLog, out, tools, ret>>

\* line = await ... sys.stdin.readline
run_readline ==
    /\ pc = "read"
    /\ \E l \in (IF nread < MaxLines THEN Lines ELSE {EofLine}) :
          /\ line' = l
          /\ readLog' = Append(readLog, l)
    /\ nread' = nread + 1
    /\ pc' = "dispatch"
    /\ UNCHANGED <<environ, resources, loaded, out, err, tools, ret>>

\* Mutant of run_break: a blank line is skipped instead of ending the loop.
run_break_skips ==
    /\ pc = "dispatch"
    /\ line.kind \in {"eof", "blank"}
    /\ pc' = IF line.kind = "eof" THEN "done" ELSE "read"
    /\ UNCHANGED <<environ, resources, loaded, line, nread, readLog, out, err,
                   tools, ret>>

\* if not line or line.strip() == "": break
run_break ==
    /\ pc = "dispatch"
    /\ line.kind \in {"eof", "blank"}
    /\ pc' = "done"
    /\ UNCHANGED <<environ, resources, loaded, line, nread, readLog, out, err,
                   tools, ret>>

ParseErrorResponse == Failure("null", ParseErrorCode, "Parse error")

\* Mutant of run_parse_error: the parse error ends the loop unanswered.
run_parse_error_fatal ==
    /\ pc = "dispatch"
    /\ line.kind = "malformed"
    /\ pc' = "done"
    /\ UNCHANGED <<environ, resources, loaded, line, nread, readLog, out, err,
                   tools, ret>>

\* json.loads raises JSONDecodeError: the parse-error response is printed
\* and the loop goes on.
run_parse_error ==
    /\ pc = "dispatch"
    /\ line.kind = "malformed"
    /\ out' = Emit(out, <<ParseErrorResponse>>)
    /\ pc' = "read"
    /\ UNCHANGED <<environ, resources, loaded, line, nread, readLog, err,
                   tools, ret>>

\* Mutant of Answered: the returned response is never printed.
AnsweredUnprinted(request, lib) == handle_request(request, lib).printed

\* What one pass through handle_request and the print after it adds to stdout.
Answered(request, lib) ==
    LET h == handle_request(request, lib)
    IN  h.printed \o <<h.response>>

\* Mutant of run_handle: a tools/call is refused until an initialize
\* request has been read.
run_handle_requiring_initialize ==
    /\ pc = "dispatch"
    /\ line.kind = "object"
    /\ IF /\ line.method = "tools/call"
          /\ ~\E i \in 1..(Len(readLog) - 1) :
                 readLog[i].kind = "object" /\ readLog[i].method = "initialize"
       THEN out' = Emit(out, <<Failure(line.id, HandlerErrorCode,
                                       "Server not initialized")>>)
       ELSE \E lib \in LibFor(line) : out' = Emit(out, Answered(line, lib))
    /\ pc' = "read"
    /\ UNCHANGED <<environ, resources, loaded, line, nread, readLog, err,
                   tools, ret>>

\* Mutant of run_handle: a sop.read of an id that is no node adds an empty
\* node for it to the context graph.
run_handle_adding_node ==
    /\ pc = "dispatch"
    /\ line.kind = "object"
    /\ \E lib \in LibFor(line) : out' = Emit(out, Answered(line, lib))
    /\ kg' = LET sid == line.params.arguments.section_id
             IN  IF /\ line.method = "tools/call"
                    /\ line.params.isobj
                    /\ line.params.name = "sop.read"
                    /\ sid \notin DOMAIN kg.nodes
                 THEN [nodes |-> [n \in DOMAIN kg.nodes \cup {sid} |->
                                    IF n \in DOMAIN kg.nodes THEN kg.nodes[n]
                                    ELSE EmptyNode],
                       succ |-> [n \in DOMAIN kg.succ \cup {sid} |->
                                    IF n \in DOMAIN kg.succ THEN kg.succ[n]
                                    ELSE <<>>]]
                 ELSE kg
    /\ pc' = "read"
    /\ UNCHANGED <<environ, doc_meta, faiss_index, bm25, model, loaded, line,
                   nread, readLog, err, tools, ret>>

\* response = await self.handle_request(request); print(json.dumps(response))
run_handle ==
    /\ pc = "dispatch"
    /\ line.kind = "object"
    /\ \E lib \in LibFor(line) : out' = Emit(out, Answered(line, lib))
    /\ pc' = "read"
    /\ UNCHANGED <<environ, resources, loaded, line, nread, readLog, err,
                   tools, ret>>

\* The line is JSON but no object: request.get raises AttributeError
\* outside handle_request's try; the outer except of run() reports it on
\* stderr and run() returns.
run_not_object ==
    /\ pc = "dispatch"
    /\ line.kind = "json"
    /\ err' = Emit(err, <<"Server error: object has no attribute 'get'">>)
    /\ pc' = "done"
    /\ UNCHANGED <<environ, resources, loaded, line, nread, readLog, out,
                   tools, ret>>

----------------------------------------------------------------------------
(* The server process *)

Environments ==
    { [SERPER_API_KEY |-> AbsentStr], [SERPER_API_KEY |-> Present("key")] }

\* ret before any direct call; a direct call of sop_search leaves in ret its
\* arguments, its locals bm25_candidates, dense_cands and merged, and what
\* it returned or raised.
NoCall ==
    [query |-> None, k |-> 0, bm25_candidates |-> <<>>, dense_cands |-> <<>>,
     merged |-> <<>>, result |-> Raise("")]

Init ==
    /\ pc = "start"
    /\ environ \in Environments
    /\ doc_meta = <<>>
    /\ faiss_index = None
    /\ bm25 = None
    /\ kg = None
    /\ model = None
    /\ loaded = <<>>
    /\ line = EofLine
    /\ nread = 0
    /\ readLog = <<>>
    /\ out = <<>>
    /\ err = <<>>
    /\ tools = <<>>
    /\ ret = NoCall

Next ==
    \/ main_construct(ServeStores)
    \/ run_start
    \/ run_readline
    \/ run_break
    \/ run_parse_error
    \/ run_handle
    \/ run_not_object

Spec == Init /\ [][Next]_vars

----------------------------------------------------------------------------
(* sop_search on its own, over every store within the bounds *)

InitSearch ==
    /\ pc = "read"
    /\ environ = [SERPER_API_KEY |-> AbsentStr]
    /\ \E store \in AllStores :
          /\ doc_meta = store.doc_meta
          /\ faiss_index = store.faiss_index
          /\ bm25 = store.bm25
          /\ kg = store.kg
          /\ model = store.model
    /\ loaded = LoadOrder
    /\ line = EofLine
    /\ nread = 0
    /\ readLog = <<>>
    /\ out = <<>>
    /\ err = <<"SOP MCP Server running on stdio">>
    /\ tools = Tools
    /\ ret = NoCall

call_sop_search ==
    /\ pc = "read"
    /\ ret = NoCall
    /\ \E query \in Queries, k \in (1..MaxK) \cup {DefaultK} :
          \E kept \in Bm25Kept(query, k),
             hits \in FaissSearch(model[query], k) :
                ret' = [query |-> query, k |-> k,
                        bm25_candidates |-> Bm25Candidates(query, kept),
                        dense_cands |-> DenseCands(hits),
                        merged |-> Merged(DenseCands(hits),
                                          Bm25Candidates(query, kept)),
                        result |-> sop_search(query, k, kept, hits)]
    /\ UNCHANGED <<pc, environ, resources, loaded, line, nread, readLog, out,
                   err, tools>>

NextSearch == call_sop_search

SpecSearch == InitSearch /\ [][NextSearch]_vars

----------------------------------------------------------------------------
(* cite_validate on its own, over the texts and citation lists within the
   bounds *)

TextChars == {"A", "a", ".", " "}

TwoSentences == <<"A", ".", " ", "B", ".">>

SectionText == <<"S", "e", "e", " ", "S", "O", "P", "-", "1", ".">>

HttpText == <<"a", "t", " ", "h", "t", "t", "p", ":", "a", "!", "\n", "A">>

CiteTexts ==
    UNION {[1..n -> TextChars] : n \in 0..MaxTextLen}
        \cup {TwoSentences, SectionText, HttpText, CitedText}

\* Anchors: the empty string, a letter, a letter and a full stop, a URL,
\* a section id.
CiteAnchors ==
    { <<>>, <<"a">>, <<"A", ".">>, <<"h", "t", "t", "p", ":", "a">>,
      <<"S", "O", "P", "-", "1">> }

CiteLists == UNION {[1..n -> CiteAnchors] : n \in 0..MaxCitations}

InitCite ==
    /\ pc = "read"
    /\ environ = [SERPER_API_KEY |-> AbsentStr]
    /\ LET store == CHOOSE st \in ServeStores : TRUE
       IN  /\ doc_meta = store.doc_meta
           /\ faiss_index = store.faiss_index
           /\ bm25 = store.bm25
           /\ kg = store.kg
           /\ model = store.model
    /\ loaded = LoadOrder
    /\ line = EofLine
    /\ nread = 0
    /\ readLog = <<>>
    /\ out = <<>>
    /\ err = <<"SOP MCP Server running on stdio">>
    /\ tools = Tools
    /\ ret = NoCall

\* A direct call of cite_validate leaves in ret its arguments and what it
\* returned.
call_cite_validate ==
    /\ pc = "read"
    /\ ret = NoCall
    /\ \E text \in CiteTexts, citations \in CiteLists :
          ret' = [text |-> text, citations |-> citations,
                  result |-> cite_validate(Present(text), citations)]
    /\ UNCHANGED <<pc, environ, resources, loaded, line, nread, readLog, out,
                   err, tools>>

NextCite == call_cite_validate

SpecCite == InitCite /\ [][NextCite]_vars

----------------------------------------------------------------------------
(* The pass-through server (mcp_server.py): every tool call is forwarded to
   a backend over HTTP *)

\* What the backend call can come to: a 200 whose body is a JSON object
\* without or with an "error" key, JSON null, or no JSON at all; another
\* status; a connection error; a timeout; any other exception.
BackendReplies ==
    { [status |-> "200", body |-> b] :
         b \in {"object", "error_object", "null", "not_json"} }
    \cup { [status |-> st, body |-> ""] :
             st \in {"500", "client_error", "timeout", "exception"} }

NoError == [has |-> FALSE, v |-> ""]

\* _call_fastapi_endpoint: the parsed body of a 200, or a dict with the
\* one key "error". A 200 whose body is no JSON makes response.json()
\* raise a ClientError subclass inside the try.
proxy_call_fastapi_endpoint(reply) ==
    CASE reply.status = "200" /\ reply.body = "object" ->
            [kind |-> "dict", error |-> NoError]
      [] reply.status = "200" /\ reply.body = "error_object" ->
            [kind |-> "dict", error |-> Present("backend")]
      [] reply.status = "200" /\ reply.body = "null" ->
            [kind |-> "null", error |-> NoError]
      [] reply.status = "200" /\ reply.body = "not_json" ->
            [kind |-> "dict", error |-> Present("Connection error")]
      [] reply.status = "client_error" ->
            [kind |-> "dict", error |-> Present("Connection error")]
      [] reply.status = "timeout" ->
            [kind |-> "dict", error |-> Present("Request timeout")]
      [] reply.status = "exception" ->
            [kind |-> "dict", error |-> Present("Unexpected error")]
      [] OTHER ->
            [kind |-> "dict", error |-> Present("HTTP " \o reply.status)]

\* The name each tool method gives itself in its error text.
ProxyLabel(name) ==
    CASE name = "sop.search" -> "SOP search"
      [] name = "sop.read" -> "SOP read"
      [] name = "web.search" -> "web search"
      [] OTHER -> "cite validate"

\* Mutant of proxy_tool: a failed backend call is raised, not returned.
proxy_tool_raising(name, reply) ==
    LET result == proxy_call_fastapi_endpoint(reply)
    IN  IF result.kind = "null"
        THEN Raise("argument of type 'NoneType' is not iterable")
        ELSE IF result.error.has
             THEN Raise("Error calling " \o ProxyLabel(name) \o ": "
                           \o result.error.v)
             ELSE Content(JsonDumps([endpoint |-> "/tool/" \o name]))

\* sop_search, sop_read, web_search, cite_validate of the pass-through
\* server: the call, the test "error" in result, the error text or the
\* JSON of the result.
proxy_tool(name, reply) ==
    LET result == proxy_call_fastapi_endpoint(reply)
    IN  IF result.kind = "null"
        THEN Raise("argument of type 'NoneType' is not iterable")
        ELSE IF result.error.has
             THEN Content(PlainText("Error calling " \o ProxyLabel(name) \o ": "
                                       \o result.error.v))
             ELSE Content(JsonDumps([endpoint |-> "/tool/" \o name]))

\* Whether handling the request calls the backend.
CallsBackend(request) ==
    /\ request.method = "tools/call"
    /\ request.params.isobj
    /\ request.params.name \in Range(ToolNames)

proxy_handle_request(request, reply) ==
    LET method == request.method
        request_id == request.id
        params == request.params
    IN  CASE method = "tools/list" ->
               [printed |-> <<>>,
                response |-> Success(request_id, [tools |-> tools])]
          [] method = "tools/call" ->
               LET r == IF ~params.isobj
                        THEN Raise("'NoneType' object has no attribute 'get'")
                        ELSE IF params.name \in Range(ToolNames)
                             THEN proxy_tool(params.name, reply)
                             ELSE Raise("Unknown tool: " \o params.name)
               IN  [printed |-> <<>>,
                    response |->
                       IF r.raised
                       THEN Failure(request_id, HandlerErrorCode, r.message)
                       ELSE Success(request_id, [content |-> r.content])]
          [] method = "initialize" ->
               [printed |-> <<InitializedNotification>>,
                response |->
                   Success(request_id,
                           [protocolVersion |-> "2025-03-26",
                            serverInfo |-> [name |-> "SOP MCP Proxy Server",
                                            version |-> "1.0.0"]])]
          [] OTHER ->
               [printed |-> <<>>,
                response |-> Failure(request_id, HandlerErrorCode,
                                     "Unknown method: " \o method)]

ProxyRequests ==
    {Req("1", m, NoParams) : m \in {"initialize", "tools/list", "resources/list"}}
    \cup {Req("2", "tools/call", Call(name, NoArgs)) :
             name \in Range(ToolNames) \cup {"sop.delete"}}
    \cup {Req("2", "tools/call", NullParams)}

ProxyLines == {EofLine, BlankLine, MalformedLine, NonObjectLine} \cup ProxyRequests

\* main(): the server is constructed without loading anything.
InitProxy ==
    /\ pc = "run"
    /\ environ = [SERPER_API_KEY |-> AbsentStr]
    /\ doc_meta = <<>>
    /\ faiss_index = None
    /\ bm25 = None
    /\ kg = None
    /\ model = None
    /\ loaded = <<>>
    /\ line = EofLine
    /\ nread = 0
    /\ readLog = <<>>
    /\ out = <<>>
    /\ err = <<>>
    /\ tools = Tools
    /\ ret = NoCall

proxy_run_start ==
    /\ pc = "run"
    /\ err' = Emit(err, <<"SOP MCP Proxy Server running on stdio",
                          "Proxying requests to: http://localhost:8000">>)
    /\ pc' = "read"
    /\ UNCHANGED <<environ, resources, loaded, line, nread, readLog, out, tools, ret>>

proxy_run_readline ==
    /\ pc = "read"
    /\ \E l \in (IF nread < MaxLines THEN ProxyLines ELSE {EofLine}) :
          /\ line' = l
          /\ readLog' = Append(readLog, l)
    /\ nread' = nread + 1
    /\ pc' = "dispatch"
    /\ UNCHANGED <<environ, resources, loaded, out, err, tools, ret>>

proxy_run_break ==
    /\ pc = "dispatch"
    /\ line.kind \in {"eof", "blank"}
    /\ pc' = "done"
    /\ UNCHANGED <<environ, resources, loaded, line, nread, readLog, out, err,
                   tools, ret>>

proxy_run_parse_error ==
    /\ pc = "dispatch"
    /\ line.kind = "malformed"
    /\ out' = Emit(out, <<Failure("null", ParseErrorCode, "Parse error: ")>>)
    /\ pc' = "read"
    /\ UNCHANGED <<environ, resources, loaded, line, nread, readLog, err,
                   tools, ret>>

\* response = await self.handle_request(request); print(json.dumps(response)).
\* ret keeps the endpoint called and what the call came to.
proxy_run_handle ==
    /\ pc = "dispatch"
    /\ line.kind = "object"
    /\ \E reply \in (IF CallsBackend(line) THEN BackendReplies
                      ELSE {[status |-> "none", body |-> ""]}) :
          LET h == proxy_handle_request(line, reply)
          IN  /\ out' = Emit(out, h.printed \o <<h.response>>)
              /\ ret' = IF CallsBackend(line)
                        THEN [endpoint |-> "/tool/" \o line.params.name,
                              reply |-> reply]
                        ELSE ret
    /\ pc' = "read"
    /\ UNCHANGED <<environ, resources, loaded, line, nread, readLog, err, tools>>

proxy_run_not_object ==
    /\ pc = "dispatch"
    /\ line.kind = "json"
    /\ err' = Emit(err, <<"Server error: object has no attribute 'get'">>)
    /\ pc' = "done"
    /\ UNCHANGED <<environ, resources, loaded, line, nread, readLog, out,
                   tools, ret>>

NextProxy ==
    \/ proxy_run_start
    \/ proxy_run_readline
    \/ proxy_run_break
    \/ proxy_run_parse_error
    \/ proxy_run_handle
    \/ proxy_run_not_object

SpecProxy == InitProxy /\ [][NextProxy]_vars

----------------------------------------------------------------------------
(* Reading stdout against the lines read *)

IsResponse(l) == "id" \in DOMAIN l

IsNotification(l) == "id" \notin DOMAIN l /\ "method" \in DOMAIN l

IsError(l) == IsResponse(l) /\ "error" \in DOMAIN l

IsSuccess(l) == IsResponse(l) /\ "result" \in DOMAIN l

HasCode(l, code) == IsError(l) /\ l.error.code = code

Last(s) == s[Len(s)]

\* The lines read that have been dispatched: all of them, but for the one
\* run() is holding between its read and its dispatch.
Dispatched == IF pc = "dispatch" THEN SubSeq(readLog, 1, Len(readLog) - 1) ELSE readLog

RequestsDispatched == SelectSeq(Dispatched, LAMBDA l : l.kind = "object")

\* The response lines on stdout that answer requests (the parse-error
\* responses answer lines that are not JSON).
RequestResponses ==
    SelectSeq(out, LAMBDA l : IsResponse(l) /\ ~HasCode(l, ParseErrorCode))

KnownMethods == {"initialize", "tools/list", "tools/call"}

\* Whether response r is the kind of response the method of request q gets.
AnswersMethod(r, q) ==
    CASE q.method = "tools/list" -> IsSuccess(r) /\ "tools" \in DOMAIN r.result
      [] q.method = "initialize" ->
            IsSuccess(r) /\ "protocolVersion" \in DOMAIN r.result
      [] q.method = "tools/call" ->
            \/ IsSuccess(r) /\ "content" \in DOMAIN r.result
            \/ HasCode(r, HandlerErrorCode)
               /\ r.error.message # "Unknown method: " \o q.method
      [] OTHER ->
            HasCode(r, HandlerErrorCode)
            /\ r.error.message = "Unknown method: " \o q.method

----------------------------------------------------------------------------
(* Claims *)

\* C1: the requests read get exactly one response line each, the i-th
\* response answering the i-th request, and a line is only read once every
\* request read before it has its response on stdout.
C1_ResponsesInRequestOrder ==
    /\ Len(RequestResponses) = Len(RequestsDispatched)
    /\ \A i \in 1..Len(RequestResponses) :
          i <= Len(RequestsDispatched)
             => AnswersMethod(RequestResponses[i], RequestsDispatched[i])

C1_Witness ==
    /\ pc = "read"
    /\ Len(RequestsDispatched) = 2
    /\ RequestsDispatched[1].method = "resources/list"
    /\ RequestsDispatched[2].method = "tools/list"
    /\ Len(RequestResponses) = 2

\* C2 (as claimed): every bad line gets exactly one response and the loop
\* goes on; only a blank line or end-of-stream ends it.
C2_BadLineNeverEndsLoop ==
    /\ pc = "done" => line.kind \in {"eof", "blank"}
    /\ pc \in {"read", "done"} =>
          Len(SelectSeq(out, IsResponse))
             = Len(SelectSeq(readLog, LAMBDA l : l.kind \notin {"eof", "blank"}))

\* C3 (as claimed): the response to initialize comes first and the
\* notifications/initialized notification, without an id, is the line
\* right after it; there is one notification per initialize response.
C3_NotificationFollowsResponse ==
    \A i \in 1..Len(out) :
        /\ (IsSuccess(out[i]) /\ "protocolVersion" \in DOMAIN out[i].result)
              => (i < Len(out) /\ IsNotification(out[i + 1]))
        /\ IsNotification(out[i])
              => (i > 1 /\ IsSuccess(out[i - 1])
                  /\ "protocolVersion" \in DOMAIN out[i - 1].result)

\* C4: the i-th response to a request, success or -32000 error, carries the
\* id of the i-th request, whatever the ids are and also when they repeat.
C4_IdEchoed ==
    \A i \in 1..Len(RequestResponses) :
        i <= Len(RequestsDispatched)
           => /\ RequestResponses[i].id = RequestsDispatched[i].id
              /\ IsSuccess(RequestResponses[i])
                    \/ HasCode(RequestResponses[i], HandlerErrorCode)

C4_Witness ==
    /\ pc = "read"
    /\ Len(RequestsDispatched) = 2
    /\ RequestsDispatched[1].id = "2"
    /\ RequestsDispatched[2].id = "2"
    /\ IsSuccess(RequestResponses[1])
    /\ HasCode(RequestResponses[2], HandlerErrorCode)

\* C5: dispatching a non-blank line that is not JSON appends exactly one
\* line to stdout, an error response with code -32700 and id null, and the
\* loop goes back to reading.
C5_ParseErrorAnswered ==
    [][(pc = "dispatch" /\ line.kind = "malformed")
          => /\ pc' = "read"
             /\ Len(out') = Len(out) + 1
             /\ SubSeq(out', 1, Len(out)) = out
             /\ HasCode(Last(out'), ParseErrorCode)
             /\ Last(out').id = "null"]_vars

C5_Witness ==
    /\ pc = "read"
    /\ Len(readLog) = 2
    /\ readLog[1].kind = "malformed"
    /\ readLog[2].kind = "object"
    /\ Len(out) = 2
    /\ HasCode(out[1], ParseErrorCode)
    /\ IsSuccess(out[2])

\* C6: on end-of-stream or a blank line the loop ends: nothing is written
\* for that line and nothing is read or written afterwards; one request
\* followed by end-of-stream leaves exactly that request's output.
C6_BlankOrEofEndsLoop ==
    /\ [][(pc = "dispatch" /\ line.kind \in {"eof", "blank"})
             => (pc' = "done" /\ out' = out /\ nread' = nread)]_vars
    /\ [][pc = "done" => (pc' = "done" /\ out' = out /\ nread' = nread)]_vars
    /\ []((pc = "done" /\ Len(readLog) = 2 /\ readLog[1].kind = "object"
           /\ readLog[2].kind = "eof")
             => /\ Len(RequestResponses) = 1
                /\ Len(out) = IF readLog[1].method = "initialize" THEN 2 ELSE 1
                /\ RequestResponses[1].id = readLog[1].id)

C6_Witness ==
    /\ pc = "done"
    /\ Len(readLog) = 2
    /\ readLog[1].kind = "object"
    /\ readLog[2].kind = "blank"
    /\ Len(out) = 1

\* The message of the exception a bad request raises inside handle_request.
RaisedMessage(q) ==
    IF q.method \notin KnownMethods THEN "Unknown method: " \o q.method
    ELSE IF ~q.params.isobj THEN "'NoneType' object has no attribute 'get'"
    ELSE IF q.params.name = "sop.search"
         THEN "'NoneType' object has no attribute 'split'"
    ELSE IF q.params.name = "cite.validate"
         THEN "'NoneType' object has no attribute 'strip'"
    ELSE "Unknown tool: " \o q.params.name

\* The requests of the claim: an unknown method, an unknown tool, or a
\* tool call whose handler raises on its arguments.
RaisesInHandler(q) ==
    \/ q.method \notin KnownMethods
    \/ /\ q.method = "tools/call"
       /\ \/ ~q.params.isobj
          \/ q.params.name \notin Range(ToolNames)
          \/ q.params.name = "sop.search" /\ q.params.arguments.query = None
          \/ q.params.name = "cite.validate" /\ ~q.params.arguments.text.has

\* C7: dispatching a request with an unknown method, an unknown tool or a
\* raising handler appends one error response with code -32000, the
\* exception's message and the request's id, and the loop goes on reading.
C7_HandlerErrorAnswered ==
    [][(pc = "dispatch" /\ line.kind = "object" /\ RaisesInHandler(line))
          => /\ pc' = "read"
             /\ Len(out') = Len(out) + 1
             /\ SubSeq(out', 1, Len(out)) = out
             /\ HasCode(Last(out'), HandlerErrorCode)
             /\ Last(out').error.message = RaisedMessage(line)
             /\ Last(out').id = line.id]_vars

C7_Witness ==
    /\ pc = "read"
    /\ Len(readLog) = 2
    /\ readLog[1].kind = "object"
    /\ readLog[1].method = "tools/call"
    /\ readLog[1].params.name = "sop.delete"
    /\ readLog[2].kind = "object"
    /\ Len(out) = 2
    /\ HasCode(out[1], HandlerErrorCode)
    /\ out[1].error.message = "Unknown tool: sop.delete"
    /\ IsSuccess(out[2])

\* C8: the dispatch loop runs only with all five resources loaded; when the
\* load fails the process ends in construction, having read no line and
\* written no response; and every failed load does raise.
C8_NoServingWithoutResources ==
    /\ pc \in {"run", "read", "dispatch", "done"} => AllLoaded
    /\ pc = "fatal" => (~AllLoaded /\ nread = 0 /\ out = <<>> /\ Len(err) = 1)
    /\ pc \in {"run", "fatal"}
          => \A faiss_exists \in BOOLEAN, unloadable \in SUBSET Artifacts :
                (~faiss_exists \/ unloadable # {})
                   => load_resources(faiss_exists, unloadable).raised

C8_Witness ==
    /\ pc = "fatal"
    /\ loaded = <<"doc_meta", "faiss_index">>
    /\ err = <<"RuntimeError: Failed to load resources: bm25">>

\* The result list inside a tool result whose text is a JSON payload.
ResultsOf(result) == result.content[1].text.value.results

\* C9 (as claimed): a sop.search call with a query is answered with a
\* success response also when a surviving result has no node in the
\* context graph; that result has an empty excerpt.
C9_MissingNodeGivesEmptyExcerpt ==
    \A i \in 1..Len(RequestResponses) :
        (/\ i <= Len(RequestsDispatched)
         /\ RequestsDispatched[i].method = "tools/call"
         /\ RequestsDispatched[i].params.isobj
         /\ RequestsDispatched[i].params.name = "sop.search"
         /\ RequestsDispatched[i].params.arguments.query # None)
           => /\ IsSuccess(RequestResponses[i])
              /\ \A j \in 1..Len(ResultsOf(RequestResponses[i].result)) :
                    LET item == ResultsOf(RequestResponses[i].result)[j]
                    IN  item.section_id \notin DOMAIN kg.nodes
                           => item.excerpt = <<>>

\* The fused score of a returned result, 0.7*dense + 0.3*bm25, times ten.
Fused(item) == DenseWeight * item.scores.dense + Bm25Weight * item.scores.bm25

\* C10: a sop.search with k >= 1 that returns has at most k results, in
\* non-increasing order of 0.7*dense + 0.3*bm25.
C10_AtMostKByFusedScore ==
    (ret.k >= 1 /\ ~ret.result.raised)
       => LET rs == ResultsOf(ret.result)
          IN  /\ Len(rs) <= ret.k
              /\ \A i \in 1..(Len(rs) - 1) : Fused(rs[i]) >= Fused(rs[i + 1])

C10_Witness ==
    /\ ret.k = 2
    /\ ~ret.result.raised
    /\ Len(ResultsOf(ret.result)) = 2
    /\ Cardinality({doc_meta[i].section_id : i \in 1..Len(doc_meta)}) > 2
    /\ Fused(ResultsOf(ret.result)[1]) > Fused(ResultsOf(ret.result)[2])
    /\ ResultsOf(ret.result)[1].scores.dense < ResultsOf(ret.result)[2].scores.dense

\* The scores the candidates of one pass give a section id.
ScoresOf(cands, sid) ==
    {cands[i].score : i \in {j \in 1..Len(cands) : cands[j].sid = sid}}

\* The section ids that are both a lexical and a dense candidate of the call.
InBoth ==
    {c.sid : c \in Range(ret.bm25_candidates)}
        \cap {c.sid : c \in Range(ret.dense_cands)}

\* C11: a section id that is both a lexical and a dense candidate has
\* exactly one entry in the fused set, carrying a dense score and a bm25
\* score of that section, neither replaced by 0.0; a returned result for it
\* carries the same two scores.
C11_BothSidesFusedOnce ==
    ret.query # None
       => \A sid \in InBoth :
             /\ Cardinality({i \in 1..Len(ret.merged) : ret.merged[i].sid = sid}) = 1
             /\ \A i \in 1..Len(ret.merged) :
                   ret.merged[i].sid = sid
                      => /\ ret.merged[i].dense_score \in ScoresOf(ret.dense_cands, sid)
                         /\ ret.merged[i].bm25_score \in ScoresOf(ret.bm25_candidates, sid)
                         /\ ret.merged[i].dense_score # 0
                         /\ ret.merged[i].bm25_score # 0
                         /\ ~ret.result.raised
                               => \A j \in 1..Len(ResultsOf(ret.result)) :
                                     ResultsOf(ret.result)[j].section_id = sid
                                        => /\ ResultsOf(ret.result)[j].scores.dense
                                                 = ret.merged[i].dense_score
                                           /\ ResultsOf(ret.result)[j].scores.bm25
                                                 = ret.merged[i].bm25_score

C11_Witness ==
    /\ ret.query = "q"
    /\ ~ret.result.raised
    /\ Len(ret.merged) = 3
    /\ Cardinality(InBoth) = 1
    /\ \E j \in 1..Len(ResultsOf(ret.result)) :
          /\ ResultsOf(ret.result)[j].section_id \in InBoth
          /\ ResultsOf(ret.result)[j].scores.dense = 2
          /\ ResultsOf(ret.result)[j].scores.bm25 = 5


\* Whether request q is a tools/call of the tool with this name.
CallsTool(q, name) ==
    q.method = "tools/call" /\ q.params.isobj /\ q.params.name = name

\* The text of the one content item of a tool result.
TextOf(r) == r.result.content[1].text

\* C12: a sop.read of a section id that is no node of the context graph is
\* answered with a success response carrying the request's id and no error
\* member, whose one content item says the id was not found; the answer is
\* never a -32000 error response.
C12_ReadOfMissingNodeSucceeds ==
    \A i \in 1..Len(RequestResponses) :
        (/\ i <= Len(RequestsDispatched)
         /\ CallsTool(RequestsDispatched[i], "sop.read")
         /\ RequestsDispatched[i].params.arguments.section_id \notin DOMAIN kg.nodes)
           => /\ IsSuccess(RequestResponses[i])
              /\ ~IsError(RequestResponses[i])
              /\ ~HasCode(RequestResponses[i], HandlerErrorCode)
              /\ RequestResponses[i].id = RequestsDispatched[i].id
              /\ Len(RequestResponses[i].result.content) = 1
              /\ RequestResponses[i].result.content[1].type = "text"
              /\ TextOf(RequestResponses[i]).value
                    = "Error: section_id '"
                         \o RequestsDispatched[i].params.arguments.section_id
                         \o "' not found"

C12_Witness ==
    /\ pc = "read"
    /\ Len(RequestsDispatched) = 2
    /\ CallsTool(RequestsDispatched[1], "sop.read")
    /\ RequestsDispatched[1].params.arguments.section_id = UnknownSid
    /\ CallsTool(RequestsDispatched[2], "sop.read")
    /\ RequestsDispatched[2].params.arguments.section_id = SidName(2)
    /\ SidName(2) \notin DOMAIN kg.nodes
    /\ IsSuccess(RequestResponses[1])
    /\ IsSuccess(RequestResponses[2])
    /\ TextOf(RequestResponses[1]).value = "Error: section_id 'SOP-0' not found"


\* C13 (as claimed): a sop.read of a section id that is a node of the
\* context graph is answered with the JSON payload {section_id, text,
\* title, sop, section} whose fields are the node's attributes, also when
\* the node has some or none of them; a node is never reported not found.
C13_ReadOfNodeGivesItsAttributes ==
    \A i \in 1..Len(RequestResponses) :
        (/\ i <= Len(RequestsDispatched)
         /\ CallsTool(RequestsDispatched[i], "sop.read")
         /\ RequestsDispatched[i].params.arguments.section_id \in DOMAIN kg.nodes)
           => LET sid == RequestsDispatched[i].params.arguments.section_id
                  node == kg.nodes[sid]
                  r == RequestResponses[i]
              IN  /\ IsSuccess(r)
                  /\ TextOf(r).fmt = "json"
                  /\ DOMAIN TextOf(r).value
                        = {"section_id", "text", "title", "sop", "section"}
                  /\ TextOf(r).value.section_id = sid
                  /\ \A key \in DOMAIN node :
                        node[key].has => TextOf(r).value[key] = node[key].v


\* Whether ret holds a call of cite_validate, and the payload it returned.
CiteCalled == "citations" \in DOMAIN ret

CitePayload == ret.result.content[1].text.value

\* C14 (as claimed): cite_validate of the empty text, whatever the
\* citations, returns a details list without entries and coverage_pct 0.0.
C14_EmptyTextHasNoSentences ==
    (CiteCalled /\ ret.text = <<>>)
       => /\ ~ret.result.raised
          /\ CitePayload.details = <<>>
          /\ CitePayload.coverage_pct.num = 0


\* The text without its leading and trailing whitespace.
Trimmed(x) ==
    LET solid == {i \in 1..Len(x) : ~IsSpace(x[i])}
    IN  IF solid = {} THEN <<>>
        ELSE SubSeq(x, CHOOSE i \in solid : \A j \in solid : i <= j,
                       CHOOSE i \in solid : \A j \in solid : j <= i)

\* Position i of t lies in a run of whitespace that directly follows a
\* full stop, exclamation mark or question mark: a sentence boundary.
IsSep(t, i) ==
    /\ IsSpace(t[i])
    /\ \E j \in 1..(i - 1) : IsStop(t[j]) /\ \A m \in (j + 1)..i : IsSpace(t[m])

RunStarts(t) == {i \in 1..Len(t) : IsSep(t, i) /\ ~IsSep(t, i - 1)}

RunEnds(t) == {i \in 1..Len(t) : IsSep(t, i) /\ (i = Len(t) \/ ~IsSep(t, i + 1))}

Nth(S, n) == CHOOSE p \in S : Cardinality({q \in S : q < p}) = n - 1

\* The sentences of a text: the stretches between its sentence boundaries.
SentencesOf(x) ==
    LET t == Trimmed(x)
        n == Cardinality(RunStarts(t)) + 1
    IN  [j \in 1..n |->
            SubSeq(t, IF j = 1 THEN 1 ELSE Nth(RunEnds(t), j - 1) + 1,
                      IF j = n THEN Len(t) ELSE Nth(RunStarts(t), j) - 1)]

SameLetter(c, d) ==
    \/ c = d
    \/ {c, d} \in {{"A", "a"}, {"B", "b"}, {"H", "h"}, {"O", "o"}, {"P", "p"},
                   {"S", "s"}, {"T", "t"}}

\* Anchor a occurs in sentence s; letters match whatever their case when
\* anycase holds.
Occurs(a, s, anycase) ==
    \E off \in 0..(Len(s) - Len(a)) :
        \A m \in 1..Len(a) :
            IF anycase THEN SameLetter(s[off + m], a[m]) ELSE s[off + m] = a[m]

BeginsWithHttp(a) ==
    Len(a) >= 4 /\ a[1] = "h" /\ a[2] = "t" /\ a[3] = "t" /\ a[4] = "p"

C16_ContentIsIndentedJson ==
    \A i \in 1..Len(RequestResponses) :
        (/\ i <= Len(RequestsDispatched)
         /\ RequestsDispatched[i].method = "tools/call"
         /\ IsSuccess(RequestResponses[i]))
           => /\ DOMAIN RequestResponses[i].result = {"content"}
              /\ Len(RequestResponses[i].result.content) = 1
              /\ RequestResponses[i].result.content[1].type = "text"
              /\ TextOf(RequestResponses[i]).fmt = "json"
              /\ TextOf(RequestResponses[i]).indent = 2


\* C17: a web.search call is always answered with a success response, never
\* with an error response. Without an API key no reply of the API is used
\* and the payload has an empty results list and a warning; with a key,
\* every reply other than a 200 (another status, a timeout or transport
\* error) gives a payload with an empty results list and a warning.
C17_WebSearchNeverFails ==
    /\ \A i \in 1..Len(RequestResponses) :
          (/\ i <= Len(RequestsDispatched)
           /\ CallsTool(RequestsDispatched[i], "web.search"))
             => LET r == RequestResponses[i]
                IN  /\ IsSuccess(r)
                    /\ ~IsError(r)
                    /\ TextOf(r).fmt = "json"
                    /\ \/ /\ TextOf(r).value.results = <<>>
                          /\ "warning" \in DOMAIN TextOf(r).value
                       \/ /\ HasSerperKey
                          /\ "warning" \notin DOMAIN TextOf(r).value
                    /\ ~HasSerperKey
                          => /\ TextOf(r).value.results = <<>>
                             /\ TextOf(r).value.warning = "No SERPER_API_KEY configured"
                             /\ LibFor(RequestsDispatched[i]) = {NoLib}
    /\ \A reply \in WebReplies :
          (pc \in {"read", "dispatch"} /\ reply.status # "200")
             => LET r == web_search("q", MaxK, reply)
                IN  /\ ~r.raised
                    /\ r.content[1].text.value.results = <<>>
                    /\ "warning" \in DOMAIN r.content[1].text.value

C17_Witness ==
    /\ pc = "read"
    /\ HasSerperKey
    /\ Len(RequestsDispatched) = 2
    /\ CallsTool(RequestsDispatched[1], "web.search")
    /\ CallsTool(RequestsDispatched[2], "web.search")
    /\ IsSuccess(RequestResponses[1])
    /\ "warning" \in DOMAIN TextOf(RequestResponses[1]).value
    /\ TextOf(RequestResponses[1]).value.warning = "Search error"
    /\ TextOf(RequestResponses[1]).value.results = <<>>
    /\ IsSuccess(RequestResponses[2])
    /\ Len(TextOf(RequestResponses[2]).value.results) = MaxK


\* C18: every tools/list request is answered with exactly four descriptors,
\* named sop.search, sop.read, web.search and cite.validate, whatever was
\* requested before it; once the server is constructed no step changes the
\* tool list.
C18_ToolsListFixed ==
    /\ [](\A i \in 1..Len(RequestResponses) :
            (/\ i <= Len(RequestsDispatched)
             /\ RequestsDispatched[i].method = "tools/list")
               => /\ IsSuccess(RequestResponses[i])
                  /\ Len(RequestResponses[i].result.tools) = 4
                  /\ {RequestResponses[i].result.tools[j].name : j \in 1..4}
                        = {"sop.search", "sop.read", "web.search", "cite.validate"})
    /\ [][pc # "start" => tools' = tools]_vars

C18_Witness ==
    /\ pc = "read"
    /\ Len(RequestsDispatched) = 2
    /\ CallsTool(RequestsDispatched[1], "sop.read")
    /\ RequestsDispatched[2].method = "tools/list"
    /\ IsSuccess(RequestResponses[2])
    /\ Len(RequestResponses[2].result.tools) = 4

\* C19: once the server is constructed, no step - reading a line, answering
\* a request of any kind, a parse error, the end of the loop - changes the
\* document table, the lexical index, the vector index, the context graph
\* or the model.
C19_ResourcesNeverWritten ==
    [][pc # "start" => resources' = resources]_vars

C19_Witness ==
    /\ pc = "read"
    /\ AllLoaded
    /\ Len(RequestsDispatched) = 2
    /\ CallsTool(RequestsDispatched[1], "sop.search")
    /\ CallsTool(RequestsDispatched[2], "sop.read")
    /\ RequestsDispatched[2].params.arguments.section_id \notin DOMAIN kg.nodes
    /\ Len(RequestResponses) = 2


\* The lexical scores of the query of the call, by position of the table.
LexicalScores == bm25[Split(ret.query)]

\* The positions whose lexical score is above zero and which fewer than k
\* other positions equal or beat: they are among the k highest whatever
\* the order given to equal scores.
SurelyTopK ==
    {i \in 1..Len(LexicalScores) :
        /\ LexicalScores[i] > 0
        /\ Cardinality({j \in 1..Len(LexicalScores) :
                           j # i /\ LexicalScores[j] >= LexicalScores[i]}) < ret.k}

\* C20: the lexical candidates of a sop_search call are at most k, each the
\* section and score of a position whose score is above zero and among the
\* k highest, and every such position that is surely among the k highest
\* is a candidate; an empty query has no lexical candidate. A fused entry
\* of a section that is only a lexical candidate has dense score 0.0, one
\* of a section that is only a dense candidate has bm25 score 0.0.
C20_LexicalCandidatesAndMissingSide ==
    ret.query # None
       => LET lex == ret.bm25_candidates
              lexIds == {c.sid : c \in Range(lex)}
              denseIds == {c.sid : c \in Range(ret.dense_cands)}
          IN  /\ Len(lex) <= ret.k
              /\ \A c \in Range(lex) :
                    /\ c.score > 0
                    /\ \E i \in 1..Len(LexicalScores) :
                          /\ doc_meta[i].section_id = c.sid
                          /\ LexicalScores[i] = c.score
                          /\ Cardinality({j \in 1..Len(LexicalScores) :
                                  LexicalScores[j] > LexicalScores[i]}) < ret.k
              /\ \A i \in SurelyTopK :
                    \E c \in Range(lex) :
                       c.sid = doc_meta[i].section_id /\ c.score = LexicalScores[i]
              /\ ret.query = "" => lex = <<>>
              /\ {ret.merged[i].sid : i \in 1..Len(ret.merged)} = lexIds \cup denseIds
              /\ \A i \in 1..Len(ret.merged) :
                    /\ ret.merged[i].sid \in lexIds \ denseIds
                          => ret.merged[i].dense_score = 0
                    /\ ret.merged[i].sid \in denseIds \ lexIds
                          => ret.merged[i].bm25_score = 0

C20_Witness ==
    /\ ret.query = "q"
    /\ ret.k = 2
    /\ Len(ret.bm25_candidates) = 1
    /\ Cardinality({i \in 1..Len(LexicalScores) : LexicalScores[i] = 0}) = 2
    /\ \E i, j \in 1..Len(ret.merged) :
          /\ ret.merged[i].sid \notin {c.sid : c \in Range(ret.dense_cands)}
          /\ ret.merged[i].dense_score = 0
          /\ ret.merged[i].bm25_score = 5
          /\ ret.merged[j].sid \notin {c.sid : c \in Range(ret.bm25_candidates)}
          /\ ret.merged[j].bm25_score = 0
          /\ ret.merged[j].dense_score = 2


\* The first artifact of an order that is among the unloadable ones.
FirstOf(order, unloadable) ==
    order[CHOOSE i \in 1..Len(order) :
             /\ order[i] \in unloadable
             /\ \A j \in 1..(i - 1) : order[j] \notin unloadable]

\* Startup has failed on an artifact that did not load: the artifacts
\* assigned before the failure are the beginning of the order, and whatever
\* set of artifacts is unloadable, the error is that of its first in the
\* order.
FailsInOrder(order) ==
    (pc = "fatal" /\ err # <<"RuntimeError: Indices not built. Run indexer.py first.">>)
       => /\ Len(loaded) < Len(order)
          /\ loaded = SubSeq(order, 1, Len(loaded))
          /\ err = <<"RuntimeError: Failed to load resources: "
                        \o order[Len(loaded) + 1]>>
          /\ \A unloadable \in (SUBSET Range(order)) \ {{}} :
                load_resources(TRUE, unloadable).message
                   = "Failed to load resources: " \o FirstOf(order, unloadable)

\* C21 (as claimed): the artifacts are loaded in the order document table,
\* lexical index, vector index, context graph, model, and the startup error
\* is that of the first unloadable artifact in this order.
C21_LexicalBeforeVector ==
    FailsInOrder(<<"doc_meta", "bm25", "faiss_index", "kg", "model">>)

\* C21 (amended): the artifacts are loaded in the order document table,
\* vector index, lexical index, context graph, model, and the startup error
\* is that of the first unloadable artifact in this order.
C21_VectorBeforeLexical ==
    FailsInOrder(<<"doc_meta", "faiss_index", "bm25", "kg", "model">>)

C21_Witness ==
    /\ pc = "fatal"
    /\ loaded = <<"doc_meta">>
    /\ err = <<"RuntimeError: Failed to load resources: faiss_index">>
    /\ nread = 0


\* The responses request q can get when it is the only request handled,
\* one for each thing the libraries and the network may hand back.
FreshResponses(q) == {handle_request(q, lib).response : lib \in LibFor(q)}

C23_ResultIdsDistinct ==
    ret.query # None
       => /\ \A i, j \in 1..Len(ret.merged) :
                i # j => ret.merged[i].sid # ret.merged[j].sid
          /\ ~ret.result.raised
                => \A i, j \in 1..Len(ResultsOf(ret.result)) :
                      i # j => ResultsOf(ret.result)[i].section_id
                                  # ResultsOf(ret.result)[j].section_id

C23_Witness ==
    /\ ret.query = "q"
    /\ ~ret.result.raised
    /\ Cardinality({doc_meta[i].section_id : i \in 1..Len(doc_meta)}) = 2
    /\ Len(ret.dense_cands) = NDocs
    /\ Len(ret.bm25_candidates) = 2
    /\ ret.bm25_candidates[1].sid = ret.bm25_candidates[2].sid
    /\ Len(ResultsOf(ret.result)) = 2


\* C24: when the citation list holds the empty string, cite_validate marks
\* every sentence covered, the one empty sentence of the empty text
\* included, and coverage_pct is 100.0, whatever the text and the other
\* citations.
C24_EmptyCitationCoversAll ==
    (CiteCalled /\ <<>> \in Range(ret.citations))
       => /\ ~ret.result.raised
          /\ Len(CitePayload.details) >= 1
          /\ \A j \in 1..Len(CitePayload.details) : CitePayload.details[j].covered
          /\ CitePayload.coverage_pct.num = 100 * CitePayload.coverage_pct.den
          /\ ret.text = <<>>
                => CitePayload.details = <<[sentence |-> <<>>, covered |-> TRUE]>>

C24_Witness ==
    /\ CiteCalled
    /\ ret.text = TwoSentences
    /\ ret.citations = << <<"S", "O", "P", "-", "1">>, <<>> >>
    /\ Len(CitePayload.details) = 2
    /\ CitePayload.details[2].covered
    /\ CitePayload.coverage_pct = [num |-> 200, den |-> 2]


\* The backend call failed: a status other than 200, a connection error, a
\* timeout, another exception, or a 200 whose body cannot be parsed.
BackendFailed(reply) == reply.status # "200" \/ reply.body = "not_json"

\* The texts that begin with "Error calling".
ErrorCallingTexts ==
    {"Error calling " \o label \o ": " \o detail :
        label \in {"SOP search", "SOP read", "web search", "cite validate"},
        detail \in {"HTTP 500", "Connection error", "Request timeout",
                    "Unexpected error", "backend"}}

\* C25: in the pass-through server, a call of a known tool whose backend
\* call fails is answered with one success response carrying the request's
\* id, whose text begins with "Error calling", never with an error
\* response, and the loop goes on reading; the loop ends only on a blank
\* line, the end of the stream or a line that is no object.
C25_BackendFailureIsSuccessText ==
    /\ [][(/\ pc = "dispatch"
            /\ line.kind = "object"
            /\ CallsBackend(line)
            /\ "reply" \in DOMAIN ret'
            /\ BackendFailed(ret'.reply))
              => /\ pc' = "read"
                 /\ Len(out') = Len(out) + 1
                 /\ SubSeq(out', 1, Len(out)) = out
                 /\ IsSuccess(Last(out'))
                 /\ ~IsError(Last(out'))
                 /\ Last(out').id = line.id
                 /\ Len(Last(out').result.content) = 1
                 /\ TextOf(Last(out')).fmt = "plain"
                 /\ TextOf(Last(out')).value \in ErrorCallingTexts]_vars
    /\ [](pc = "done" => line.kind \in {"eof", "blank", "json"})

C25_Witness ==
    /\ pc = "read"
    /\ Len(RequestsDispatched) = 2
    /\ CallsTool(RequestsDispatched[1], "sop.search")
    /\ CallsTool(RequestsDispatched[2], "cite.validate")
    /\ Len(out) = 2
    /\ IsSuccess(out[1])
    /\ TextOf(out[1]).fmt = "plain"
    /\ TextOf(out[1]).value = "Error calling SOP search: Request timeout"
    /\ IsSuccess(out[2])
    /\ TextOf(out[2]).fmt = "json"
    /\ "reply" \in DOMAIN ret
    /\ ret.reply.status = "200"

====
